---- MODULE Spec2Model ----
(***************************************************************************)
(* A model of bank.py: the TransactionID class with its class-level        *)
(* counter trans_num, and the Account class with its class-level display   *)
(* timezone and interest rate.                                             *)
(*                                                                         *)
(* Python strings are sequences of one-character strings, so that          *)
(* formatting (f-strings, strftime), str.split, int() and strptime are     *)
(* modelled by what they do.  Python numbers are records [kind, num, exp]  *)
(* standing for the value num / RateDen^exp of type kind.                  *)
(***************************************************************************)
EXTENDS Integers, Sequences, FiniteSets, TLC

\* Bounds of the model.
MaxIds == 3        \* TransactionIDs created in the process (caps trans_num)
MaxAccounts == 2   \* Account objects constructed successfully
MaxInterest == 1   \* interest payments per account (caps the exponent of a balance)

----------------------------------------------------------------------------
\* Strings

Digits == <<"0", "1", "2", "3", "4", "5", "6", "7", "8", "9">>

IsDigit(c) == \E d \in 1..10 : Digits[d] = c

DigitVal(c) == (CHOOSE d \in 1..10 : Digits[d] = c) - 1

RECURSIVE NatStr(_)
NatStr(n) == IF n < 10 THEN <<Digits[n + 1]>>
             ELSE NatStr(n \div 10) \o <<Digits[(n % 10) + 1]>>

\* str(n) of an int, as an f-string field formats it
IntStr(n) == IF n < 0 THEN <<"-">> \o NatStr(-n) ELSE NatStr(n)

RECURSIVE ZeroPad(_, _)
ZeroPad(s, w) == IF Len(s) >= w THEN s ELSE ZeroPad(<<"0">> \o s, w)

RECURSIVE DigitsVal(_)
DigitsVal(s) == IF Len(s) = 0 THEN 0
                ELSE 10 * DigitsVal(SubSeq(s, 1, Len(s) - 1)) + DigitVal(s[Len(s)])

AllDigits(s) == \A i \in 1..Len(s) : IsDigit(s[i])

\* s.split(sep) for a one-character separator
RECURSIVE Split(_, _)
Split(s, sep) ==
    IF Len(s) = 0 THEN << <<>> >>
    ELSE LET rest == Split(Tail(s), sep)
         IN  IF Head(s) = sep THEN << <<>> >> \o rest
             ELSE << <<Head(s)>> \o Head(rest) >> \o Tail(rest)

\* sub in s, for strings
IsSubstring(sub, s) ==
    \E i \in 1..(Len(s) + 1) : i + Len(sub) - 1 <= Len(s) /\ SubSeq(s, i, i + Len(sub) - 1) = sub

\* s.index(sub), zero-based, for a sub that is in s
IndexOf(sub, s) ==
    (CHOOSE i \in 1..(Len(s) + 1) :
        /\ i + Len(sub) - 1 <= Len(s)
        /\ SubSeq(s, i, i + Len(sub) - 1) = sub
        /\ \A j \in 1..(i - 1) : SubSeq(s, j, j + Len(sub) - 1) # sub) - 1

\* s.strip(), for the blank " "
RECURSIVE Strip(_)
Strip(s) == IF Len(s) > 0 /\ s[1] = " " THEN Strip(Tail(s))
            ELSE IF Len(s) > 0 /\ s[Len(s)] = " " THEN Strip(SubSeq(s, 1, Len(s) - 1))
            ELSE s

\* int(s) of a string without blanks or underscores: an optional sign, then digits
IntOk(s) ==
    LET body == IF Len(s) > 0 /\ s[1] \in {"+", "-"} THEN Tail(s) ELSE s
    IN  Len(body) > 0 /\ AllDigits(body)

IntOf(s) ==
    IF s[1] = "-" THEN 0 - DigitsVal(Tail(s))
    ELSE IF s[1] = "+" THEN DigitsVal(Tail(s))
    ELSE DigitsVal(s)

----------------------------------------------------------------------------
\* datetime

DateTime(y, mo, d, h, mi, s, us) ==
    [year |-> y, month |-> mo, day |-> d, hour |-> h, minute |-> mi,
     second |-> s, microsecond |-> us]

NoTime == DateTime(0, 0, 0, 0, 0, 0, 0)

IsLeap(y) == (y % 4 = 0 /\ y % 100 # 0) \/ y % 400 = 0

DaysInMonth(y, mo) ==
    IF mo = 2 THEN (IF IsLeap(y) THEN 29 ELSE 28)
    ELSE IF mo \in {4, 6, 9, 11} THEN 30 ELSE 31

\* datetime.strftime(dt, '%Y%m%d%H%M%S'), for a year of four digits
Strftime(dt) ==
    ZeroPad(NatStr(dt.year), 4) \o ZeroPad(NatStr(dt.month), 2)
    \o ZeroPad(NatStr(dt.day), 2) \o ZeroPad(NatStr(dt.hour), 2)
    \o ZeroPad(NatStr(dt.minute), 2) \o ZeroPad(NatStr(dt.second), 2)

\* datetime.strptime(s, '%Y%m%d%H%M%S') of a string that is not 9 to 13 digits
\* long (those may match with one-digit fields): it succeeds on 14 digits that
\* name a date and a time of day, and raises ValueError on the rest.
StrptimeFields(s) ==
    DateTime(DigitsVal(SubSeq(s, 1, 4)), DigitsVal(SubSeq(s, 5, 6)),
             DigitsVal(SubSeq(s, 7, 8)), DigitsVal(SubSeq(s, 9, 10)),
             DigitsVal(SubSeq(s, 11, 12)), DigitsVal(SubSeq(s, 13, 14)), 0)

StrptimeOk(s) ==
    /\ Len(s) = 14
    /\ AllDigits(s)
    /\ LET dt == StrptimeFields(s)
       IN  /\ dt.year >= 1
           /\ dt.month \in 1..12
           /\ dt.day \in 1..DaysInMonth(dt.year, dt.month)
           /\ dt.hour \in 0..23
           /\ dt.minute \in 0..59
           /\ dt.second \in 0..59

Strptime(s) == StrptimeFields(s)

----------------------------------------------------------------------------
\* Numbers: [kind, num, exp] is the value num / RateDen^exp of Python type kind
\* ("int", "float" or "Decimal"); kind "str" is a value that is no number.

Percent == 100

RateDen == 2 * Percent

RECURSIVE Pow(_, _)
Pow(b, e) == IF e = 0 THEN 1 ELSE b * Pow(b, e - 1)

RECURSIVE Normal(_)
Normal(x) == IF x.exp > 0 /\ x.num % RateDen = 0
             THEN Normal([x EXCEPT !.num = x.num \div RateDen, !.exp = x.exp - 1])
             ELSE x

Number(kind, n) == [kind |-> kind, num |-> n, exp |-> 0]

\* isinstance(value, Real) or isinstance(value, Decimal)
IsNumeric(x) == x.kind \in {"int", "float", "Decimal"}

\* value < 0
IsNegative(x) == x.num < 0

\* a float and a Decimal do not combine: the operator raises TypeError
Combines(x, y) == {x.kind, y.kind} # {"float", "Decimal"}

KindOf(x, y) == IF "float" \in {x.kind, y.kind} THEN "float"
                ELSE IF "Decimal" \in {x.kind, y.kind} THEN "Decimal"
                ELSE "int"

MaxExp(x, y) == IF x.exp >= y.exp THEN x.exp ELSE y.exp

Scaled(x, e) == x.num * Pow(RateDen, e - x.exp)

Add(x, y) == Normal([kind |-> KindOf(x, y),
                     num |-> Scaled(x, MaxExp(x, y)) + Scaled(y, MaxExp(x, y)),
                     exp |-> MaxExp(x, y)])

Sub(x, y) == Normal([kind |-> KindOf(x, y),
                     num |-> Scaled(x, MaxExp(x, y)) - Scaled(y, MaxExp(x, y)),
                     exp |-> MaxExp(x, y)])

Mul(x, y) == Normal([kind |-> KindOf(x, y), num |-> x.num * y.num, exp |-> x.exp + y.exp])

\* x / 100 of a float x = num / RateDen whose num is a multiple of Percent
DivPercent(x) == [kind |-> "float", num |-> x.num \div Percent, exp |-> x.exp]

\* x = y and x <= y as values
NumEq(x, y) == Scaled(x, MaxExp(x, y)) = Scaled(y, MaxExp(x, y))

NumLeq(x, y) == Scaled(x, MaxExp(x, y)) <= Scaled(y, MaxExp(x, y))

----------------------------------------------------------------------------
\* Timezones.  A datetime.timezone is [kind, name, offset], offset in minutes;
\* kind "utc" is the singleton timezone.utc, "None" the argument left out and
\* "unset" the class attribute Account._tz before the first set_tz.

UTC == [kind |-> "utc", name |-> "UTC", offset |-> 0]

NoTz == [kind |-> "None", name |-> "", offset |-> 0]

UnsetTz == [kind |-> "unset", name |-> "", offset |-> 0]

\* TimeZone(name, hours, minutes).offset, in minutes
TimeZoneOffset(z) == z.hours * 60 + z.minutes

TimezoneOfHours(z) == [kind |-> "fixed", name |-> z.name, offset |-> z.hours * 60]

\* timezone(tz.offset, tz.name)
TimezoneOf(z) == [kind |-> "fixed", name |-> z.name, offset |-> TimeZoneOffset(z)]

----------------------------------------------------------------------------
\* class TransactionID

Codes == <<"D", "W", "I", "X">>

\* self._codes[trans_code]: a negative index counts from the end, and an
\* index outside -4..3 raises IndexError
CodeIndexOk(trans_code) == trans_code \in (0 - Len(Codes))..(Len(Codes) - 1)

TransType(trans_code) ==
    IF trans_code < 0 THEN Codes[trans_code + Len(Codes) + 1] ELSE Codes[trans_code + 1]

\* The utc_time argument is [type, dt, s]: type "None", "datetime" (dt) or "str" (s).
NoneArg == [type |-> "None", dt |-> NoTime, s |-> <<>>]

TimeArg(dt) == [type |-> "datetime", dt |-> dt, s |-> <<>>]

StrArg(s) == [type |-> "str", dt |-> NoTime, s |-> s]

\* utc_time or datetime.utcnow(): None and the empty string are falsy, and
\* the clock is read for them only
ReadsClock(arg) == arg.type = "None" \/ (arg.type = "str" /\ arg.s = <<>>)

UtcTimeOrNow(arg, now) == IF ReadsClock(arg) THEN TimeArg(now) ELSE arg

\* the utc_time setter: a value that is no datetime goes through strptime
UtcTimeSetterOk(value) == value.type = "datetime" \/ StrptimeOk(value.s)

UtcTimeSetter(value) == IF value.type = "datetime" THEN value.dt ELSE Strptime(value.s)

\* tz or timezone.utc
TzOrUtc(tz_arg) == IF tz_arg.kind = "None" THEN UTC ELSE tz_arg

\* TransactionID.__init__, up to inc_trans_num: the exception it raises, or "ok"
InitOutcome(trans_code, utc_arg, now) ==
    IF ~CodeIndexOk(trans_code) THEN "IndexError"
    ELSE IF ~UtcTimeSetterOk(UtcTimeOrNow(utc_arg, now)) THEN "ValueError"
    ELSE "ok"

\* the object __init__ builds; has_num says whether the instance has its own
\* trans_num attribute (only parse_confirmation_code sets one)
InitObject(trans_code, account_num, utc_arg, tz_arg, now) ==
    [trans_code |-> trans_code,
     trans_type |-> TransType(trans_code),
     account_num |-> account_num,
     utc_time |-> UtcTimeSetter(UtcTimeOrNow(utc_arg, now)),
     tz |-> TzOrUtc(tz_arg),
     has_num |-> FALSE,
     num |-> 0]

IncTransNumTwice(n) == n + 2

\* cls.trans_num += 1
IncTransNum(n) == n + 1

\* self.trans_num, read with the class counter at n: the instance attribute
\* when the instance has one, the class attribute otherwise
SelfTransNum(id, n) == IF id.has_num THEN id.num ELSE n

\* the transaction_num property, read with the class counter at n
TransactionNum(id, n) ==
    <<id.trans_type>> \o <<"-">> \o IntStr(id.account_num) \o <<"-">>
    \o Strftime(id.utc_time) \o <<"-">> \o IntStr(SelfTransNum(id, n))

\* The time property.  utc_time is a naive datetime, and astimezone takes a
\* naive datetime to be in the local timezone of the machine: local is the
\* offset of that timezone from UTC, in minutes.

NextDay(dt) ==
    IF dt.day < DaysInMonth(dt.year, dt.month) THEN [dt EXCEPT !.day = dt.day + 1]
    ELSE IF dt.month < 12 THEN [dt EXCEPT !.day = 1, !.month = dt.month + 1]
    ELSE [dt EXCEPT !.day = 1, !.month = 1, !.year = dt.year + 1]

PrevDay(dt) ==
    IF dt.day > 1 THEN [dt EXCEPT !.day = dt.day - 1]
    ELSE IF dt.month > 1
    THEN [dt EXCEPT !.day = DaysInMonth(dt.year, dt.month - 1), !.month = dt.month - 1]
    ELSE [dt EXCEPT !.day = 31, !.month = 12, !.year = dt.year - 1]

RECURSIVE AddDays(_, _)
AddDays(dt, k) ==
    IF k = 0 THEN dt
    ELSE IF k > 0 THEN AddDays(NextDay(dt), k - 1)
    ELSE AddDays(PrevDay(dt), k + 1)

\* dt + timedelta(minutes=m)
AddMinutes(dt, m) ==
    LET total == dt.hour * 60 + dt.minute + m
        days == IF total >= 0 THEN total \div 1440 ELSE 0 - ((1439 - total) \div 1440)
        rest == total - days * 1440
    IN  [AddDays(dt, days) EXCEPT !.hour = rest \div 60, !.minute = rest % 60]

\* utc_time.astimezone(tz) of the naive utc_time, on a machine at offset local
Astimezone(dt, tzv, local) == AddMinutes(dt, tzv.offset - local)

\* str(tz_time.tzinfo), for a timezone that was given a name
TzName(tzv) == tzv.name

\* datetime.strftime(dt, f'%Y-%m-%d %H:%M:%S({tz_name})'), for a year of four digits
StrftimeZone(dt, tz_name) ==
    ZeroPad(NatStr(dt.year), 4) \o <<"-">> \o ZeroPad(NatStr(dt.month), 2) \o <<"-">>
    \o ZeroPad(NatStr(dt.day), 2) \o <<" ">> \o ZeroPad(NatStr(dt.hour), 2) \o <<":">>
    \o ZeroPad(NatStr(dt.minute), 2) \o <<":">> \o ZeroPad(NatStr(dt.second), 2)
    \o <<"(", tz_name, ")">>

\* the time property, read on a machine at offset local
Time(id, local) ==
    IF id.tz.kind = "utc" THEN StrftimeZone(id.utc_time, "UTC")
    ELSE StrftimeZone(Astimezone(id.utc_time, id.tz, local), TzName(id.tz))

----------------------------------------------------------------------------
\* State

VARIABLES
    trans_num,      \* TransactionID.trans_num, the class attribute
    interest_rate,  \* Account.interest_rate, the class attribute
    tz,             \* Account._tz, the class attribute
    accounts,       \* the Account objects constructed, in order of construction
    ids,            \* the TransactionID objects returned to callers, in order of creation
    aborts,         \* the TransactionAbort errors raised, in order
    clock,          \* the number of readings of datetime.utcnow() so far
    last            \* the last call: what it was given and how it ended

vars == <<trans_num, interest_rate, tz, accounts, ids, aborts, clock, last>>

\* The instants the system clock shows, one per reading, in turn.
Instants == <<DateTime(2020, 2, 29, 23, 59, 58, 250000),
              DateTime(2020, 3, 1, 0, 0, 0, 0),
              DateTime(2021, 12, 31, 9, 5, 7, 1)>>

\* datetime.utcnow() at the reading after k earlier ones
UtcNow(k) == Instants[(k % Len(Instants)) + 1]

Zero == Number("int", 0)

\* the record of a call: the account it was made on (0: none), the amount and
\* the string it was given, the position in ids of the object it returned
\* (0: none), and whether a TransactionID was constructed in it
Call(op, outcome, acct, amount, input, id, made) ==
    [op |-> op, outcome |-> outcome, acct |-> acct, amount |-> amount,
     input |-> input, id |-> id, made |-> made]

\* a TransactionAbort: its text holds the confirmation code of the identifier
\* created for it, read when the text was formatted; at is the number of
\* identifiers returned before it was raised
Abort(at, code) == [at |-> at, code |-> code]

Init ==
    /\ trans_num = -1
    /\ interest_rate = [kind |-> "float", num |-> Percent, exp |-> 1]
    /\ tz = UnsetTz
    /\ accounts = <<>>
    /\ ids = <<>>
    /\ aborts = <<>>
    /\ clock = 0
    /\ last = Call("start", "ok", 0, Zero, <<>>, 0, FALSE)

\* a call may create a TransactionID while fewer than MaxIds were created
CanCreate == trans_num + 1 < MaxIds

\* A call that creates TransactionID(trans_code, account_num) with the clock
\* read once and returns it (or, for raised = TRUE, puts it in the text of
\* the exception it raises).
Issue(op, outcome, acct, amount, trans_code, account_num, raised) ==
    LET obj == InitObject(trans_code, account_num, NoneArg, NoTz, UtcNow(clock))
    IN  /\ trans_num' = IncTransNum(trans_num)
        /\ clock' = clock + 1
        /\ ids' = IF raised THEN ids ELSE Append(ids, obj)
        /\ aborts' = IF raised
                     THEN Append(aborts,
                                 Abort(Len(ids), TransactionNum(obj, IncTransNum(trans_num))))
                     ELSE aborts
        /\ last' = Call(op, outcome, acct, amount, <<>>, IF raised THEN 0 ELSE Len(ids) + 1,
                        TRUE)

RejectConsuming(op, outcome, acct, amount, input) ==
    /\ last' = Call(op, outcome, acct, amount, input, 0, FALSE)
    /\ trans_num' = trans_num + 1
    /\ UNCHANGED <<ids, aborts, clock>>

\* A call that raises before it creates or changes anything.
Reject(op, outcome, acct, amount, input) ==
    /\ last' = Call(op, outcome, acct, amount, input, 0, FALSE)
    /\ UNCHANGED <<trans_num, ids, aborts, clock>>

----------------------------------------------------------------------------
\* class Account

\* Arguments.  A name is [type, s], type "str" or "int" (a value that is no
\* string); a timezone argument is [type, zone, tz], type "TimeZone" (zone),
\* "timezone" (tz) or "str" (neither).
Str(s) == [type |-> "str", s |-> s]

NotStr == [type |-> "int", s |-> <<>>]

NoZone == [name |-> "", hours |-> 0, minutes |-> 0]

TimeZoneArg(z) == [type |-> "TimeZone", zone |-> z, tz |-> NoTz]

TimezoneArg(t) == [type |-> "timezone", zone |-> NoZone, tz |-> t]

BadTzArg == [type |-> "str", zone |-> NoZone, tz |-> NoTz]

\* Account.set_tz: the exception it raises, or "ok", and the value it stores
SetTzOutcome(arg) == IF arg.type \in {"TimeZone", "timezone"} THEN "ok" ELSE "TypeError"

SetTzValue(arg) == IF arg.type = "TimeZone" THEN TimezoneOf(arg.zone) ELSE arg.tz

\* the first_name and last_name setters
FirstNameOutcome(name) ==
    IF name.type # "str" THEN "TypeError"
    ELSE IF Len(name.s) < 1 THEN "ValueError"
    ELSE "ok"

LastNameOutcome(name) == IF name.type # "str" THEN "TypeError" ELSE "ok"

\* the balance check of Account.__init__
BalanceOutcome(balance) ==
    IF ~IsNumeric(balance) \/ IsNegative(balance) THEN "ValueError" ELSE "ok"

\* Account.__init__: the exception it raises, or "ok"
AccountOutcome(first_name, last_name, tz_arg, balance) ==
    IF FirstNameOutcome(first_name) # "ok" THEN FirstNameOutcome(first_name)
    ELSE IF LastNameOutcome(last_name) # "ok" THEN LastNameOutcome(last_name)
    ELSE IF SetTzOutcome(tz_arg) # "ok" THEN SetTzOutcome(tz_arg)
    ELSE BalanceOutcome(balance)

\* whether Account.__init__ got as far as storing the timezone in set_tz
AccountSetsTz(first_name, last_name, tz_arg) ==
    /\ FirstNameOutcome(first_name) = "ok"
    /\ LastNameOutcome(last_name) = "ok"
    /\ SetTzOutcome(tz_arg) = "ok"

AccountObject(account_num, first_name, last_name, balance) ==
    [account_num |-> account_num,
     first_name |-> Strip(first_name.s),
     last_name |-> Strip(last_name.s),
     balance |-> balance]

\* the validation of deposit and withdraw
AmountOutcome(value) ==
    IF ~IsNumeric(value) \/ IsNegative(value) THEN "ValueError" ELSE "ok"

\* deposit: the exception it raises, or "ok"
DepositOutcome(balance, value) ==
    IF AmountOutcome(value) # "ok" THEN AmountOutcome(value)
    ELSE IF ~Combines(balance, value) THEN "TypeError"
    ELSE "ok"

\* self._balance += value
DepositBalance(balance, value) == Add(balance, value)

OverdrawsNever(balance, value) == FALSE

\* self._balance - value < 0
Overdraws(balance, value) == IsNegative(Sub(balance, value))

\* withdraw: the exception it raises, or "ok"
WithdrawOutcome(balance, value) ==
    IF AmountOutcome(value) # "ok" THEN AmountOutcome(value)
    ELSE IF ~Combines(balance, value) THEN "TypeError"
    ELSE IF Overdraws(balance, value) THEN "TransactionAbort"
    ELSE "ok"

\* self._balance -= value
WithdrawBalance(balance, value) == Sub(balance, value)

\* self.interest_rate / 100
InterestFactor(rate) == DivPercent(rate)

\* pay_monthly_interest: the exception it raises, or "ok"
InterestOutcome(balance, rate) ==
    IF ~Combines(balance, InterestFactor(rate)) THEN "TypeError" ELSE "ok"

\* self.balance * (self.interest_rate / 100)
InterestAmount(balance, rate) == Mul(balance, InterestFactor(rate))

\* self._balance += interest_amount
InterestBalance(balance, rate) == Add(balance, InterestAmount(balance, rate))

SetBalanceShared(accts, a, balance) ==
    [i \in 1..Len(accts) |-> [accts[i] EXCEPT !.balance = balance]]

\* self._balance = balance, on the account accts[a]: an attribute of the instance
SetBalance(accts, a, balance) == [accts EXCEPT ![a].balance = balance]

----------------------------------------------------------------------------
\* Calls on Account

\* Account(account_num, first_name, last_name, tz=tz_arg, balance=balance), for
\* arguments <<account_num, first_name, last_name, tz_arg, balance>> in args
NewAccount(args) ==
    /\ Len(accounts) < MaxAccounts
    /\ \E arg \in args :
        LET outcome == AccountOutcome(arg[2], arg[3], arg[4], arg[5])
        IN  /\ tz' = IF AccountSetsTz(arg[2], arg[3], arg[4]) THEN SetTzValue(arg[4]) ELSE tz
            /\ accounts' = IF outcome = "ok"
                           THEN Append(accounts, AccountObject(arg[1], arg[2], arg[3], arg[5]))
                           ELSE accounts
            /\ last' = Call("Account", outcome,
                            IF outcome = "ok" THEN Len(accounts) + 1 ELSE 0,
                            arg[5], <<>>, 0, FALSE)
            /\ UNCHANGED <<trans_num, interest_rate, ids, aborts, clock>>

\* Account.set_tz(tz_arg)
SetTz(tz_args) ==
    \E tz_arg \in tz_args :
        /\ tz' = IF SetTzOutcome(tz_arg) = "ok" THEN SetTzValue(tz_arg) ELSE tz
        /\ last' = Call("set_tz", SetTzOutcome(tz_arg), 0, Zero, <<>>, 0, FALSE)
        /\ UNCHANGED <<trans_num, interest_rate, accounts, ids, aborts, clock>>

\* accounts[a].deposit(value)
Deposit(amounts) ==
    /\ CanCreate
    /\ \E a \in 1..Len(accounts), value \in amounts :
        LET outcome == DepositOutcome(accounts[a].balance, value)
        IN  /\ IF outcome = "ok"
               THEN /\ accounts' = SetBalance(accounts, a,
                                           DepositBalance(accounts[a].balance, value))
                    /\ Issue("deposit", "ok", a, value, 0, accounts[a].account_num, FALSE)
               ELSE /\ accounts' = accounts
                    /\ Reject("deposit", outcome, a, value, <<>>)
            /\ UNCHANGED <<interest_rate, tz>>

\* accounts[a].withdraw(value)
Withdraw(amounts) ==
    /\ CanCreate
    /\ \E a \in 1..Len(accounts), value \in amounts :
        LET outcome == WithdrawOutcome(accounts[a].balance, value)
        IN  /\ IF outcome = "ok"
               THEN /\ accounts' = SetBalance(accounts, a,
                                           WithdrawBalance(accounts[a].balance, value))
                    /\ Issue("withdraw", "ok", a, value, 1, accounts[a].account_num, FALSE)
               ELSE IF outcome = "TransactionAbort"
               THEN /\ accounts' = accounts
                    /\ Issue("withdraw", outcome, a, value, 3, accounts[a].account_num, TRUE)
               ELSE /\ accounts' = accounts
                    /\ Reject("withdraw", outcome, a, value, <<>>)
            /\ UNCHANGED <<interest_rate, tz>>

\* accounts[a].pay_monthly_interest()
PayMonthlyInterest ==
    /\ CanCreate
    /\ \E a \in 1..Len(accounts) :
        LET outcome == InterestOutcome(accounts[a].balance, interest_rate)
        IN  /\ IF outcome = "ok"
               THEN /\ InterestBalance(accounts[a].balance, interest_rate).exp <= MaxInterest
                    /\ accounts' = SetBalance(accounts, a,
                                           InterestBalance(accounts[a].balance, interest_rate))
                    /\ Issue("pay_monthly_interest", "ok", a, Zero, 2,
                             accounts[a].account_num, FALSE)
               ELSE /\ accounts' = accounts
                    /\ Reject("pay_monthly_interest", outcome, a, Zero, <<>>)
            /\ UNCHANGED <<interest_rate, tz>>

----------------------------------------------------------------------------
\* Account.parse_confirmation_code

\* confirmation_num.split('-')
Fields(s) == Split(s, "-")

\* 'DWIX'.index(trans_type)
TransCodeOf(trans_type) == IndexOf(trans_type, Codes)

\* In what follows parts is Fields(s), the fields of the string s parsed.

\* whether the call gets as far as calling TransactionID(...): four fields, the
\* first of them in 'DWIX', an account number int() accepts, and a timezone set
ParseReachesInit(parts, tzv) ==
    /\ Len(parts) = 4
    /\ IsSubstring(parts[1], Codes)
    /\ IntOk(parts[2])
    /\ tzv.kind # "unset"

\* whether the call creates a TransactionID (and so increments the counter)
ParseCreates(parts, tzv, now) ==
    /\ ParseReachesInit(parts, tzv)
    /\ InitOutcome(TransCodeOf(parts[1]), StrArg(parts[3]), now) = "ok"

\* whether the call reads the clock: its TransactionID is given an empty utc_time
ParseReadsClock(parts, tzv) == ParseReachesInit(parts, tzv) /\ ReadsClock(StrArg(parts[3]))

\* the exception the call raises, or "ok"
ParseOutcome(parts, tzv, now) ==
    IF Len(parts) # 4 THEN "ValueError"
    ELSE IF ~IsSubstring(parts[1], Codes) THEN "TransactionCodeError"
    ELSE IF ~IntOk(parts[2]) THEN "ValueError"
    ELSE IF tzv.kind = "unset" THEN "AttributeError"
    ELSE IF ~ParseCreates(parts, tzv, now)
         THEN InitOutcome(TransCodeOf(parts[1]), StrArg(parts[3]), now)
    ELSE IF ~IntOk(parts[4]) THEN "ValueError"
    ELSE "ok"

\* the TransactionID the call creates
ParseCreated(parts, tzv, now) ==
    InitObject(TransCodeOf(parts[1]), IntOf(parts[2]), StrArg(parts[3]), tzv, now)

ParseNoOverride(id, parts) == id

\* trans_id.trans_num = int(trans_num): the instance gets its own attribute
ParseOverride(id, parts) == [id EXCEPT !.has_num = TRUE, !.num = IntOf(parts[4])]

\* Account.parse_confirmation_code(s)
ParseConfirmationCode(inputs) ==
    /\ CanCreate
    /\ \E s \in inputs :
        LET now == UtcNow(clock)
            parts == Fields(s)
            outcome == ParseOutcome(parts, tz, now)
            creates == ParseCreates(parts, tz, now)
        IN  /\ trans_num' = IF creates THEN IncTransNum(trans_num) ELSE trans_num
            /\ clock' = IF creates /\ ParseReadsClock(parts, tz) THEN clock + 1 ELSE clock
            /\ ids' = IF outcome = "ok"
                      THEN Append(ids, ParseOverride(ParseCreated(parts, tz, now), parts))
                      ELSE ids
            /\ last' = Call("parse_confirmation_code", outcome, 0, Zero, s,
                            IF outcome = "ok" THEN Len(ids) + 1 ELSE 0, creates)
            /\ UNCHANGED <<interest_rate, tz, accounts, aborts>>

----------------------------------------------------------------------------
\* TransactionID(trans_code, account_num, utc_time=utc_arg, tz=tz_arg), for
\* arguments <<trans_code, account_num, utc_arg, tz_arg>> in args

Create(args) ==
    /\ CanCreate
    /\ \E arg \in args :
        LET now == UtcNow(clock)
            outcome == InitOutcome(arg[1], arg[3], now)
        IN  /\ trans_num' = IF outcome = "ok" THEN IncTransNum(trans_num) ELSE trans_num
            /\ clock' = IF CodeIndexOk(arg[1]) /\ ReadsClock(arg[3]) THEN clock + 1 ELSE clock
            /\ ids' = IF outcome = "ok"
                      THEN Append(ids, InitObject(arg[1], arg[2], arg[3], arg[4], now))
                      ELSE ids
            /\ last' = Call("TransactionID", outcome, 0, Number("int", arg[1]), <<>>,
                            IF outcome = "ok" THEN Len(ids) + 1 ELSE 0, outcome = "ok")
            /\ UNCHANGED <<interest_rate, tz, accounts, aborts>>

----------------------------------------------------------------------------
\* Inputs

IST == [name |-> "IST", hours |-> 5, minutes |-> 30]

TzArgs == {TimezoneArg(UTC), TimeZoneArg(IST), BadTzArg}

\* The arguments of Account(...): two that are accepted, and the first of
\* them with one argument replaced by a value that is rejected (and, in the
\* last, with another timezone besides).
BaseAccount == <<12, Str(<<"A">>), Str(<<"B", " ">>), TimezoneArg(UTC), Number("int", 0)>>

AccountArgs ==
    {BaseAccount,
     <<-1, Str(<<" ">>), Str(<<>>), TimeZoneArg(IST), Number("Decimal", 2)>>,
     [BaseAccount EXCEPT ![2] = Str(<<>>)],
     [BaseAccount EXCEPT ![3] = NotStr],
     [BaseAccount EXCEPT ![4] = BadTzArg],
     [BaseAccount EXCEPT ![5] = Number("str", 0)],
     [BaseAccount EXCEPT ![4] = TimeZoneArg(IST), ![5] = Number("int", -1)]}

Amounts == {Number("int", -1), Number("int", 0), Number("int", 2), Number("float", 1),
            Number("str", 0)}

RECURSIVE Join(_)
Join(fields) == IF Len(fields) = 1 THEN fields[1]
                ELSE fields[1] \o <<"-">> \o Join(Tail(fields))

\* The strings given to the parser: the codes that the identifiers returned so
\* far report now, a well-formed code, and that code with one field replaced,
\* with a field less and with a field more.
Issued == {TransactionNum(ids[i], trans_num) : i \in 1..Len(ids)}

BaseFields == <<<<"W">>, <<"1", "2">>, Strftime(Instants[2]), <<"1">>>>

FewInputs == {Join([BaseFields EXCEPT ![1] = <<"Q">>]),
              Join([BaseFields EXCEPT ![4] = <<"x">>])}

ParseInputs ==
    {Join(BaseFields)}
    \cup {Join([BaseFields EXCEPT ![1] = f]) :
            f \in {<<>>, <<"D", "W">>, <<"W", "D">>, <<"Q">>}}
    \cup {Join([BaseFields EXCEPT ![2] = f]) : f \in {<<"x">>, <<>>}}
    \cup {Join([BaseFields EXCEPT ![3] = f]) :
            f \in {<<>>, <<"x">>,
                   <<"2", "0", "2", "1", "0", "2", "2", "9", "0", "0", "0", "0", "0", "0">>}}
    \cup {Join([BaseFields EXCEPT ![4] = f]) : f \in {<<"x">>}}
    \cup {Join(SubSeq(BaseFields, 1, 3)), Join(BaseFields \o <<<<"1">>>>)}

\* The arguments of TransactionID(...): the call a deposit makes, and that call
\* with one argument replaced.
BaseCreate == <<0, 12, NoneArg, NoTz>>

CreateArgs ==
    {BaseCreate}
    \cup {[BaseCreate EXCEPT ![1] = c] : c \in {-5, -1, 3, 4}}
    \cup {[BaseCreate EXCEPT ![2] = -1]}
    \cup {[BaseCreate EXCEPT ![3] = u] :
            u \in {TimeArg(Instants[3]), StrArg(<<"x">>)}}
    \cup {[BaseCreate EXCEPT ![4] = TimezoneOf(IST)]}

\* The offsets from UTC, in minutes, of the local timezone of the machines the
\* process may run on.
LocalOffsets == {0, -300, 480}

----------------------------------------------------------------------------
\* Specifications

\* the calls on accounts
Next ==
    \/ NewAccount(AccountArgs)
    \/ Deposit(Amounts)
    \/ Withdraw(Amounts)
    \/ PayMonthlyInterest
    \/ ParseConfirmationCode(Issued \cup FewInputs)

Spec == Init /\ [][Next]_vars

\* the calls that create and parse identifiers
NextID ==
    \/ SetTz(TzArgs)
    \/ Create(CreateArgs)
    \/ ParseConfirmationCode(Issued \cup ParseInputs)

SpecID == Init /\ [][NextID]_vars

\* the calls on accounts, the constructor calls that raise, and set_tz
FailingCreateArgs ==
    {[BaseCreate EXCEPT ![1] = 4], [BaseCreate EXCEPT ![3] = StrArg(<<"x">>)]}

NextAll ==
    \/ Next
    \/ Create(FailingCreateArgs)
    \/ SetTz(TzArgs)

SpecAll == Init /\ [][NextAll]_vars

----------------------------------------------------------------------------
\* Properties

\* what the identifier ids[i] reports when it is read in the current state
SeqNumNow(i) == SelfTransNum(ids[i], trans_num)

CodeNow(i) == TransactionNum(ids[i], trans_num)

\* ids[i] was created by deposit, withdraw, pay_monthly_interest or a direct
\* construction (not by the parser)
Minted(i) == ~ids[i].has_num

\* the sequence number in the text of the k-th TransactionAbort
AbortNum(k) == IntOf(Fields(aborts[k].code)[Len(Fields(aborts[k].code))])

\* C1: any two identifiers created by deposit, withdraw, pay_monthly_interest
\* or an aborted withdraw report different sequence numbers, and the one
\* created later reports the larger one.
C1_SequenceNumbersIncrease ==
    /\ \A i, j \in 1..Len(ids) :
          (i < j /\ Minted(i) /\ Minted(j)) => SeqNumNow(i) < SeqNumNow(j)
    /\ \A i \in 1..Len(ids), k \in 1..Len(aborts) :
          Minted(i) => IF i <= aborts[k].at THEN SeqNumNow(i) < AbortNum(k)
                       ELSE AbortNum(k) < SeqNumNow(i)

\* C2: the confirmation code an issued identifier reports is the same after
\* every later call.
C2_IssuedCodeNeverChanges ==
    [][\A i \in 1..Len(ids) :
          TransactionNum(ids'[i], trans_num') = TransactionNum(ids[i], trans_num)]_vars

\* C3: once a display timezone is set, parsing the confirmation code of a
\* created identifier succeeds and returns an identifier with the same
\* transaction type, account number and UTC time, whose sequence number is
\* the one in the string.
C3_RoundTrip ==
    [][\A i \in 1..Len(ids) :
          (/\ Minted(i)
           /\ tz.kind # "unset"
           /\ last'.op = "parse_confirmation_code"
           /\ last'.input = CodeNow(i))
          => /\ last'.outcome = "ok"
             /\ last'.id = Len(ids) + 1
             /\ ids'[last'.id].trans_type = ids[i].trans_type
             /\ ids'[last'.id].account_num = ids[i].account_num
             /\ ids'[last'.id].utc_time = ids[i].utc_time
             /\ SelfTransNum(ids'[last'.id], trans_num') = SeqNumNow(i)]_vars

\* C4: the balance of every account is never negative.
C4_BalanceNeverNegative ==
    \A a \in 1..Len(accounts) : ~IsNegative(accounts[a].balance)

\* a withdrawal was aborted, and a later withdrawal took the whole balance
C4_Witness ==
    /\ Len(aborts) > 0
    /\ last.op = "withdraw"
    /\ last.outcome = "ok"
    /\ ~IsNegative(Sub(last.amount, Number("int", 1)))
    /\ accounts[last.acct].balance.num = 0

\* C5: the counter starts at -1; a call moves it by exactly 1 when a
\* TransactionID is constructed in it and leaves it alone otherwise; every
\* accepted deposit, withdraw, pay_monthly_interest and parse and every aborted
\* withdraw constructs one; and an identifier that is returned reports, when it
\* is returned, the number of identifiers constructed before it.
C5_CounterAdvancesByOne ==
    /\ (last.op = "start" => trans_num = -1)
    /\ [][/\ trans_num' = (IF last'.made THEN trans_num + 1 ELSE trans_num)
          /\ ((/\ last'.op \in {"deposit", "withdraw", "pay_monthly_interest",
                               "parse_confirmation_code"}
               /\ last'.outcome \in {"ok", "TransactionAbort"}) => last'.made)
          /\ ((last'.id # 0 /\ ~ids'[last'.id].has_num)
              => SelfTransNum(ids'[last'.id], trans_num') = trans_num + 1)]_vars

\* after an aborted withdraw, a parse and another identifier, the counter is at 2
C5_Witness ==
    /\ Len(aborts) > 0
    /\ \E i \in 1..Len(ids) : ~Minted(i)
    /\ trans_num = 2

\* C6: when a withdraw is aborted between two successful calls, the second of
\* them a withdraw, the receipt of the second reports a sequence number at
\* least 2 greater than the receipt of the first.
C6_AbortConsumesOneNumber ==
    \A k \in 1..Len(aborts) :
        LET i == aborts[k].at
        IN  (/\ i >= 1
             /\ i + 1 <= Len(ids)
             /\ Minted(i)
             /\ Minted(i + 1)
             /\ ids[i + 1].trans_type = "W")
            => SeqNumNow(i + 1) >= SeqNumNow(i) + 2

\* C7: a deposit of a numeric amount succeeds exactly when the amount is not
\* negative, and a withdraw exactly when the amount is between 0 and the
\* balance; the balance then grows, or shrinks, by the amount.
C7_DepositWithdrawExact ==
    [][(last'.op \in {"deposit", "withdraw"} /\ IsNumeric(last'.amount))
       => LET before == accounts[last'.acct].balance
              after == accounts'[last'.acct].balance
              amount == last'.amount
          IN  IF last'.op = "deposit"
              THEN /\ (last'.outcome = "ok") <=> ~IsNegative(amount)
                   /\ last'.outcome = "ok" => NumEq(after, Add(before, amount))
              ELSE /\ (last'.outcome = "ok") <=> (~IsNegative(amount) /\ NumLeq(amount, before))
                   /\ last'.outcome = "ok" => NumEq(after, Sub(before, amount))]_vars

\* C8: a rejected Account construction, deposit, withdraw or parse changes no
\* account, and neither the display timezone nor the interest rate.
C8_RejectedCallChangesNothing ==
    [][(/\ last'.op \in {"Account", "deposit", "withdraw", "parse_confirmation_code"}
        /\ last'.outcome # "ok")
       => /\ accounts' = accounts
          /\ tz' = tz
          /\ interest_rate' = interest_rate]_vars

\* C9: once a display timezone is set, parsing a string of four fields whose
\* first field is not one of the letters D, W, I, X raises TransactionCodeError
\* and returns no identifier.
C9_BadTransactionCodeRejected ==
    (/\ last.op = "parse_confirmation_code"
     /\ tz.kind # "unset"
     /\ Len(Fields(last.input)) = 4
     /\ Fields(last.input)[1] \notin {<<"D">>, <<"W">>, <<"I">>, <<"X">>})
    => (last.outcome = "TransactionCodeError" /\ last.id = 0)

\* the interchange format: four fields, a letter of DWIX, an integer, fourteen
\* digits and an integer
WellFormed(code) ==
    /\ Len(Fields(code)) = 4
    /\ Fields(code)[1] \in {<<"D">>, <<"W">>, <<"I">>, <<"X">>}
    /\ IntOk(Fields(code)[2])
    /\ Len(Fields(code)[3]) = 14
    /\ AllDigits(Fields(code)[3])
    /\ IntOk(Fields(code)[4])

\* C10: the confirmation code of every identifier, issued by an account or
\* returned by the parser, has the interchange format, its second field being
\* the account number.
C10_InterchangeFormat ==
    \A i \in 1..Len(ids) :
        /\ WellFormed(CodeNow(i))
        /\ IntOf(Fields(CodeNow(i))[2]) = ids[i].account_num

\* C11: a TransactionID construction with a transaction code outside 0..3,
\* negative codes included, raises IndexError and returns no identifier.
C11_UnknownCodeRejected ==
    (/\ last.op = "TransactionID"
     /\ last.amount.num \notin 0..3)
    => (last.outcome = "IndexError" /\ last.id = 0 /\ ~last.made)

\* C12: every Account constructed has a first name of at least one character
\* and a balance that is not negative; a construction with an empty first name
\* or a negative balance raises ValueError and constructs nothing; and one
\* with a first name of one character and the balance 0 succeeds when its
\* other arguments have the right types.
C12_AccountValidated ==
    /\ [](\A a \in 1..Len(accounts) :
            /\ Len(accounts[a].first_name) >= 1
            /\ ~IsNegative(accounts[a].balance))
    /\ [][\A arg \in AccountArgs :
            NewAccount({arg})
            => /\ (arg[2] = Str(<<>>) \/ IsNegative(arg[5]))
                  => (last'.outcome = "ValueError" /\ accounts' = accounts)
               /\ (/\ arg[2].type = "str" /\ Len(arg[2].s) = 1
                   /\ arg[3].type = "str"
                   /\ arg[4].type \in {"TimeZone", "timezone"}
                   /\ arg[5] = Zero)
                  => (last'.outcome = "ok" /\ Len(accounts') = Len(accounts) + 1)]_vars

\* C13: a parse that succeeds on a string whose last field is k returns an
\* identifier that reports k and leaves the counter one above what it was,
\* whatever k is; every other identifier is the object it was, and reports
\* what it reports at that counter, so the override reaches none of them.
C13_OverrideIsLocal ==
    [][(last'.op = "parse_confirmation_code" /\ last'.outcome = "ok")
       => LET k == IntOf(Fields(last'.input)[4])
          IN  /\ last'.id = Len(ids) + 1
              /\ Len(ids') = Len(ids) + 1
              /\ SelfTransNum(ids'[last'.id], trans_num') = k
              /\ trans_num' = trans_num + 1
              /\ \A i \in 1..Len(ids) :
                    /\ ids'[i] = ids[i]
                    /\ SelfTransNum(ids'[i], trans_num')
                         = SelfTransNum(ids[i], trans_num + 1)]_vars

\* a parse has returned an identifier whose number is not the counter, an
\* identifier created by a constructor call being there too
C13_Witness ==
    /\ last.op = "parse_confirmation_code"
    /\ last.outcome = "ok"
    /\ SeqNumNow(last.id) # trans_num
    /\ \E i \in 1..Len(ids) : Minted(i)
    /\ \E i \in 1..Len(ids) : ~Minted(i) /\ i # last.id /\ SeqNumNow(i) # SeqNumNow(last.id)

\* a call that raised something other than TransactionAbort
Failed(call) == call.outcome \notin {"ok", "TransactionAbort"}

\* C14 as stated: a deposit, withdraw, Account construction, TransactionID
\* construction or parse that raises a validation or parsing error leaves the
\* counter where it was, and an aborted withdraw moves it by one.
C14_OnlyAbortConsumes ==
    [][/\ (/\ Failed(last')
           /\ last'.op \in {"deposit", "withdraw", "Account", "TransactionID",
                            "parse_confirmation_code"})
          => trans_num' = trans_num
       /\ last'.outcome = "TransactionAbort" => trans_num' = trans_num + 1]_vars

\* the strings on which the parser raises after it constructed a TransactionID:
\* four fields, the first three accepted, the last one no integer
FailsAfterCreate(s, tzv) ==
    LET parts == Fields(s)
    IN  /\ Len(parts) = 4
        /\ IsSubstring(parts[1], Codes)
        /\ IntOk(parts[2])
        /\ (parts[3] = <<>> \/ StrptimeOk(parts[3]))
        /\ tzv.kind # "unset"
        /\ ~IntOk(parts[4])

\* C14, amended: a call that raises leaves the counter where it was unless a
\* TransactionID was constructed before the error: the aborted withdraw, and
\* the parse of a string whose first three fields are accepted and whose last
\* field is no integer, move it by exactly one.
C14_FailureConsumesOnlyAfterCreate ==
    [][(last'.outcome # "ok")
       => trans_num' = IF \/ last'.outcome = "TransactionAbort"
                          \/ /\ last'.op = "parse_confirmation_code"
                             /\ FailsAfterCreate(last'.input, tz)
                       THEN trans_num + 1
                       ELSE trans_num]_vars

\* after an aborted withdraw and a rejected deposit, a parse has raised on the
\* last field of its string
C14_Witness ==
    /\ Len(aborts) > 0
    /\ last.op = "parse_confirmation_code"
    /\ last.outcome = "ValueError"
    /\ FailsAfterCreate(last.input, tz)
    /\ trans_num >= 1

\* the timezone a set_tz argument stands for: a TimeZone gives the timezone of
\* its name and of its hours and minutes, a timezone is itself
Passed(arg) ==
    IF arg.type = "TimeZone"
    THEN [kind |-> "fixed", name |-> arg.zone.name,
          offset |-> arg.zone.hours * 60 + arg.zone.minutes]
    ELSE arg.tz

\* C15: the display timezone is the timezone passed to the last set_tz call
\* that was accepted, made directly or by an Account construction that got as
\* far as its set_tz call; no other call changes it; and the identifier a
\* parse returns carries it.
C15_DisplayTimezoneShared ==
    [][/\ \A arg \in TzArgs :
            SetTz({arg})
            => tz' = IF arg.type \in {"TimeZone", "timezone"} THEN Passed(arg) ELSE tz
       /\ \A arg \in AccountArgs :
            NewAccount({arg})
            => tz' = IF /\ arg[2].type = "str" /\ Len(arg[2].s) >= 1
                        /\ arg[3].type = "str"
                        /\ arg[4].type \in {"TimeZone", "timezone"}
                     THEN Passed(arg[4])
                     ELSE tz
       /\ last'.op \notin {"set_tz", "Account"} => tz' = tz
       /\ (last'.op = "parse_confirmation_code" /\ last'.outcome = "ok")
          => ids'[last'.id].tz = tz]_vars

\* with two accounts constructed, the first of them with the timezone UTC, a
\* parse has returned an identifier that carries the timezone IST
C15_Witness ==
    /\ Len(accounts) = 2
    /\ tz = [kind |-> "fixed", name |-> "IST", offset |-> 330]
    /\ last.op = "parse_confirmation_code"
    /\ last.outcome = "ok"
    /\ ids[last.id].tz = tz

\* the text of abort names a TransactionID of type X and of the account number n
AbortReceiptOf(abort, n) ==
    LET head == <<"X", "-">> \o IntStr(n) \o <<"-">>
    IN  /\ Len(abort.code) > Len(head)
        /\ SubSeq(abort.code, 1, Len(head)) = head

\* C16: a deposit of an amount that is a number and not negative returns one
\* new identifier of type D, a withdraw of such an amount within the balance
\* one of type W, and a pay_monthly_interest one of type I, each with the
\* account number of the account called; a withdraw of such an amount above
\* the balance raises one TransactionAbort whose text names an X identifier of
\* that account and returns nothing; a deposit or withdraw of any other amount
\* creates no identifier.
C16_OneReceiptPerOperation ==
    [][(last'.op \in {"deposit", "withdraw", "pay_monthly_interest"})
       => LET account == accounts[last'.acct]
              amount == last'.amount
              valid == IsNumeric(amount) /\ ~IsNegative(amount)
              within == NumLeq(amount, account.balance)
              returns(type) ==
                  /\ last'.outcome = "ok"
                  /\ Len(ids') = Len(ids) + 1
                  /\ last'.id = Len(ids')
                  /\ SubSeq(ids', 1, Len(ids)) = ids
                  /\ aborts' = aborts
                  /\ ids'[last'.id].trans_type = type
                  /\ ids'[last'.id].account_num = account.account_num
          IN  IF last'.op = "pay_monthly_interest" THEN returns("I")
              ELSE IF ~valid
              THEN last'.outcome # "ok" /\ ids' = ids /\ aborts' = aborts /\ last'.id = 0
              ELSE IF last'.op = "deposit" THEN returns("D")
              ELSE IF within THEN returns("W")
              ELSE /\ last'.outcome = "TransactionAbort"
                   /\ ids' = ids
                   /\ last'.id = 0
                   /\ Len(aborts') = Len(aborts) + 1
                   /\ AbortReceiptOf(aborts'[Len(aborts')], account.account_num)]_vars

\* C18: a deposit, withdraw or pay_monthly_interest on one account leaves every
\* other account as it was, and an Account construction and a parse leave every
\* existing account as it was: its balance, its account number and its names.
C18_AccountsAreSeparate ==
    [][\A a \in 1..Len(accounts) :
          (\/ last'.acct # a
           \/ last'.op \notin {"deposit", "withdraw", "pay_monthly_interest"})
          => /\ a <= Len(accounts')
             /\ accounts'[a].balance = accounts[a].balance
             /\ accounts'[a].account_num = accounts[a].account_num
             /\ accounts'[a].first_name = accounts[a].first_name
             /\ accounts'[a].last_name = accounts[a].last_name]_vars

\* with two accounts, a deposit, withdraw or interest payment has changed the
\* balance of one of them to a value the other does not have
C18_Witness ==
    /\ Len(accounts) = 2
    /\ last.op \in {"deposit", "withdraw", "pay_monthly_interest"}
    /\ last.outcome = "ok"
    /\ ~NumEq(accounts[1].balance, accounts[2].balance)
    /\ ~NumEq(accounts[last.acct].balance,
              IF accounts[last.acct].account_num = 12 THEN Zero ELSE Number("Decimal", 2))

\* C17: on every machine, the time property of an identifier whose timezone
\* is UTC shows its UTC instant with the label UTC, and that of an identifier
\* whose timezone has the offset of h hours and m minutes shows the UTC instant
\* plus that offset with the name of the timezone; and the confirmation code
\* is the one the identifier would have with the timezone UTC.
C17_DisplayTime ==
    \A i \in 1..Len(ids) : \A local \in LocalOffsets :
        /\ Time(ids[i], local)
             = IF ids[i].tz.kind = "utc" THEN StrftimeZone(ids[i].utc_time, "UTC")
               ELSE StrftimeZone(AddMinutes(ids[i].utc_time, ids[i].tz.offset),
                                 ids[i].tz.name)
        /\ CodeNow(i) = TransactionNum([ids[i] EXCEPT !.tz = UTC], trans_num)

====
